---- MODULE Spec2Model ----
(***************************************************************************)
(* KorSecNews ingestion pipeline: the dedup store (database.py), the       *)
(* scheduler and manual trigger (scheduler.py) and the fan-out over the    *)
(* configured sources (feed_parser.py).                                    *)
(***************************************************************************)
EXTENDS Integers, Sequences, FiniteSets, TLC

\* ------------------------------------------------------------------ bounds
\* longest batch handed to upsert_news_items
MaxBatch == 2
\* firings of the interval trigger that are followed
MaxTicks == 3
\* longest batch that is upserted twice in a row
MaxRepeated == 3
\* most descriptors in sources.yaml
MaxSources == 3

\* ------------------------------------------------------- program constants
\* variant: two instances of the job may run
MaxInstancesTwo == 1 + 1
\* scheduler.add_job(..., max_instances=1)
MaxInstances == 1

\* ------------------------------------------------------------------ values
\* Python None / SQL NULL
None == "None"

Urls == {"u1", "u2"}
Summaries == {"", "s1", "s2", None}
FetchedAts == {"f1", "f2"}

\* title, published_at, source_name, category of an item; the third has no title
Metas ==
    { [title |-> "t1", published_at |-> "p1", source_name |-> "n1", category |-> "c1"],
      [title |-> "t2", published_at |-> "p2", source_name |-> "n2", category |-> ""],
      [title |-> None, published_at |-> "p1", source_name |-> "n1", category |-> "c1"] }

\* the dict bound to the INSERT's named parameters
Item(m, u, s, f) ==
    [title |-> m.title, url |-> u, summary |-> s, published_at |-> m.published_at,
     source_name |-> m.source_name, category |-> m.category, fetched_at |-> f]

\* the items a batch is drawn from when calls follow one another: for the
\* first url every summary and fetched_at under either title, and one item
\* without title; one item of another url beside them
Titled == { m \in Metas : m.title # None }
Pool ==
    { Item(m, "u1", s, f) : m \in Titled, s \in Summaries, f \in FetchedAts }
    \cup { Item(m, "u1", "s1", "f1") : m \in Metas \ Titled }
    \cup { Item(CHOOSE m \in Metas : m.title = "t1", "u2", "s1", "f1") }

\* the items a batch is drawn from when the timer's cycle and the trigger overlap
RacePool ==
    { Item(m, "u1", "s1", "f1") : m \in Metas }
    \cup { Item(CHOOSE m \in Metas : m.title = "t1", "u2", "s1", "f1") }

Timers == {"timer1", "timer2"}
Procs == {"manual"} \cup Timers

VARIABLES
    db,            \* committed rows of news_items
    seq,           \* committed AUTOINCREMENT counter
    lock,          \* connection holding SQLite's write lock, or None
    tx,            \* rows and counter as the writing connection sees them
    pc,            \* where each pipeline run stands
    total,         \* len(items) of the run's batch
    n,             \* items of the batch already taken by the for loop
    count_before,  \* upsert_news_items' local
    ret,           \* upsert_news_items' return value
    mine,          \* rows this call itself inserted
    skipped,       \* positions of a stored batch whose write raised in this call
    instances,     \* running instances of job hourly_refresh
    fired,         \* firings of the trigger: all, those that started a run, those skipped
    written,       \* per url: what has been written so far
    twice,         \* a batch its caller upserts twice, the call that is on, the first return
    sources,       \* fetch_all_feeds: the descriptors _load_sources returned
    tasks,         \* fetch_all_feeds: one entry per _fetch_rss coroutine
    fpc,           \* fetch_all_feeds: where the call stands
    all_items,     \* fetch_all_feeds: the list it returns
    escaped,       \* fetch_all_feeds: an exception left the call
    clock,         \* datetime.now(timezone.utc), in ticks
    source,        \* _fetch_rss: the descriptor it was called with
    entries,       \* _fetch_rss: feed.entries
    idx,           \* _fetch_rss: entries the for loop has taken
    fetched,       \* _fetch_rss: the instant fetched_at was taken
    rss_items,     \* _fetch_rss: the list items
    origin,        \* per item of that list: the position of its entry
    rpc            \* _fetch_rss: where the call stands

storeVars == <<db, seq, lock, tx, pc, total, n, count_before, ret, mine, skipped, instances,
               fired, written, twice>>
fetchVars == <<sources, tasks, fpc, all_items, escaped>>
normVars == <<clock, source, entries, idx, fetched, rss_items, origin, rpc>>
vars == <<storeVars, fetchVars, normVars>>

\* ------------------------------------------------------------------- store
\* CREATE TABLE: the NOT NULL columns
NotNullOk(item) ==
    /\ item.title # None
    /\ item.url # None
    /\ item.source_name # None
    /\ item.category # None
    /\ item.fetched_at # None

\* SQL's  a != b : NULL (not true) when either side is NULL
SqlNe(a, b) == a # None /\ b # None /\ a # b

RowOf(item, id) ==
    [id |-> id, title |-> item.title, url |-> item.url, summary |-> item.summary,
     published_at |-> item.published_at, source_name |-> item.source_name,
     category |-> item.category, fetched_at |-> item.fetched_at]

Conflicts(rows, item) == { r \in rows : r.url = item.url }

\* variants of the DO UPDATE clause: the summary always taken, the first
\* non-empty summary kept, fetched_at left alone, every column taken
MergeOverwrite(r, item) ==
    [r EXCEPT !.summary = item.summary, !.fetched_at = item.fetched_at]
MergeKeepFirst(r, item) ==
    [r EXCEPT !.summary = IF r.summary = "" THEN item.summary ELSE r.summary,
              !.fetched_at = item.fetched_at]
MergeStale(r, item) ==
    [r EXCEPT !.summary = IF SqlNe(item.summary, "") THEN item.summary ELSE r.summary]
MergeAll(r, item) == RowOf(item, r.id)
\* ON CONFLICT(url) DO UPDATE SET summary = CASE ... END, fetched_at = excluded.fetched_at
Merge(r, item) ==
    [r EXCEPT !.summary = IF SqlNe(item.summary, "") THEN item.summary ELSE r.summary,
              !.fetched_at = item.fetched_at]

\* variant: a statement that raises rolls the open transaction back
UpsertRollback(v, item) ==
    IF ~NotNullOk(item)
    THEN [ok |-> FALSE, rows |-> db, seq |-> seq, inserted |-> 0]
    ELSE IF Conflicts(v.rows, item) # {}
    THEN [ok |-> TRUE,
          rows |-> { IF r.url = item.url THEN Merge(r, item) ELSE r : r \in v.rows },
          seq |-> v.seq, inserted |-> 0]
    ELSE [ok |-> TRUE, rows |-> v.rows \cup {RowOf(item, v.seq + 1)},
          seq |-> v.seq + 1, inserted |-> 1]
\* variant: a plain INSERT into a table without the UNIQUE constraint
UpsertPlain(v, item) ==
    IF ~NotNullOk(item)
    THEN [ok |-> FALSE, rows |-> v.rows, seq |-> v.seq, inserted |-> 0]
    ELSE [ok |-> TRUE, rows |-> v.rows \cup {RowOf(item, v.seq + 1)},
          seq |-> v.seq + 1, inserted |-> 1]
\* one INSERT ... ON CONFLICT statement on the view v = [rows, seq]
Upsert(v, item) ==
    IF ~NotNullOk(item)
    THEN [ok |-> FALSE, rows |-> v.rows, seq |-> v.seq, inserted |-> 0]
    ELSE IF Conflicts(v.rows, item) # {}
    THEN [ok |-> TRUE,
          rows |-> { IF r.url = item.url THEN Merge(r, item) ELSE r : r \in v.rows },
          seq |-> v.seq, inserted |-> 0]
    ELSE [ok |-> TRUE, rows |-> v.rows \cup {RowOf(item, v.seq + 1)},
          seq |-> v.seq + 1, inserted |-> 1]

\* SELECT COUNT(*) FROM news_items, outside any transaction
Count == Cardinality(db)

\* ----------------------------------------------------------------- history
NoMeta == [title |-> None, published_at |-> None, source_name |-> None, category |-> None]
NoItem == Item(NoMeta, None, None, None)

\* nothing written for a url yet
NoWrite == [seen |-> FALSE, first |-> NoItem, last |-> NoItem,
            firstNonEmpty |-> None, lastNonEmpty |-> None]

MetaOf(x) ==
    [title |-> x.title, published_at |-> x.published_at,
     source_name |-> x.source_name, category |-> x.category]

\* a summary with text in it
NonEmpty(s) == s # None /\ s # ""

\* the history of a url after one more item was written for it
Record(w, item) ==
    [seen |-> TRUE,
     first |-> IF w.seen THEN w.first ELSE item,
     last |-> item,
     firstNonEmpty |-> IF w.firstNonEmpty = None /\ NonEmpty(item.summary)
                       THEN item.summary ELSE w.firstNonEmpty,
     lastNonEmpty |-> IF NonEmpty(item.summary) THEN item.summary ELSE w.lastNonEmpty]

\* ------------------------------------------------------------- text, dates
\* a value under a key of a dict: the key is absent, or holds None, or a str
\* (the sequence of its characters)
Absent == [kind |-> "absent", text |-> <<>>]
Null == [kind |-> "null", text |-> <<>>]
Str(t) == [kind |-> "str", text |-> t]

\* d.get(key, default), and d.get(key)
Get(v, default) == IF v.kind = "absent" THEN default ELSE v
GetNone(v) == Get(v, Null)

\* bool(x) of None or a str, and  a or b
Truthy(v) == v.kind = "str" /\ v.text # <<>>
Or(a, b) == IF Truthy(a) THEN a ELSE b

\* str.lower() of one character
Lower(c) == IF c = "R" THEN "r" ELSE IF c = "A" THEN "a" ELSE IF c = "X" THEN "x" ELSE c
\* variant: the text is compared as it stands
LowerStrNot(t) == t
\* str.lower()
LowerStr(t) == [i \in 1..Len(t) |-> Lower(t[i])]

RECURSIVE LStrip(_)
LStrip(t) == IF t # <<>> /\ Head(t) = " " THEN LStrip(Tail(t)) ELSE t
RECURSIVE RStrip(_)
RStrip(t) == IF t # <<>> /\ t[Len(t)] = " " THEN RStrip(SubSeq(t, 1, Len(t) - 1)) ELSE t
\* str.strip()
Strip(t) == RStrip(LStrip(t))

\* needle in hay
Contains(hay, needle) ==
    \E k \in 0..(Len(hay) - Len(needle)) : SubSeq(hay, k + 1, k + Len(needle)) = needle

\* position of the first ">" of t, 0 when it has none
CloseAt(t) ==
    IF \E i \in 1..Len(t) : t[i] = ">"
    THEN CHOOSE i \in 1..Len(t) : t[i] = ">" /\ \A j \in 1..(i - 1) : t[j] # ">"
    ELSE 0

RECURSIVE StripTags(_)
\* re.sub(r"<[^>]+>", "", text)
StripTags(t) ==
    IF t = <<>> THEN <<>>
    ELSE IF Head(t) = "<" /\ CloseAt(Tail(t)) >= 2
    THEN StripTags(SubSeq(t, CloseAt(Tail(t)) + 2, Len(t)))
    ELSE <<Head(t)>> \o StripTags(Tail(t))

\* def _clean_summary(text, max_len: int = 300)
max_len == 300

\* _clean_summary
CleanSummary(v) ==
    IF ~Truthy(v) THEN <<>>
    ELSE LET t == Strip(StripTags(v.text)) IN
         SubSeq(t, 1, IF Len(t) > max_len THEN max_len ELSE Len(t))
            \o (IF Len(t) > max_len THEN <<"...">> ELSE <<>>)   \* the ellipsis character

\* the date strings of an entry: the key is absent, or holds "", or a text
\* dateutil cannot parse, or a timestamp t with offset off ("" when it has none)
NoDate == [kind |-> "absent", t |-> 0, off |-> ""]
EmptyDate == [kind |-> "empty", t |-> 0, off |-> ""]
Garbage == [kind |-> "garbage", t |-> 0, off |-> ""]
Stamp(t, off) == [kind |-> "stamp", t |-> t, off |-> off]

DateTruthy(d) == d.kind \in {"garbage", "stamp"}
DateOr(a, b) == IF DateTruthy(a) THEN a ELSE b

\* dt.isoformat(): local time t with its offset
Iso(t, off) == [t |-> t, off |-> off]

\* variant: a text that cannot be parsed yields no timestamp
NormalizeDateOrNone(raw, now) ==
    IF ~DateTruthy(raw) THEN Iso(now, "+00:00")
    ELSE IF raw.kind = "garbage" THEN Iso(0, None)
    ELSE IF raw.off = "" THEN Iso(raw.t, "+00:00")
    ELSE Iso(raw.t, raw.off)
\* _normalize_date
NormalizeDate(raw, now) ==
    IF ~DateTruthy(raw) THEN Iso(now, "+00:00")
    ELSE IF raw.kind = "garbage" THEN Iso(now, "+00:00")
    ELSE IF raw.off = "" THEN Iso(raw.t, "+00:00")
    ELSE Iso(raw.t, raw.off)

\* no call of _fetch_rss is on
NoSource == [name |-> "", category |-> Absent, filter_keyword |-> Absent]

\* ------------------------------------------------------------------- state
Init ==
    /\ db = {}
    /\ seq = 0
    /\ lock = None
    /\ tx = [rows |-> {}, seq |-> 0]
    /\ pc = [p \in Procs |-> "idle"]
    /\ total = [p \in Procs |-> 0]
    /\ n = [p \in Procs |-> 0]
    /\ count_before = [p \in Procs |-> 0]
    /\ ret = [p \in Procs |-> 0]
    /\ mine = [p \in Procs |-> 0]
    /\ skipped = [p \in Procs |-> {}]
    /\ instances = 0
    /\ fired = [ticks |-> 0, started |-> 0, skipped |-> 0]
    /\ written = [u \in Urls |-> NoWrite]
    /\ twice = [items |-> <<>>, call |-> 0, first |-> 0]
    /\ sources = <<>>
    /\ tasks = <<>>
    /\ fpc = "idle"
    /\ all_items = <<>>
    /\ escaped = FALSE
    /\ clock = 10
    /\ source = NoSource
    /\ entries = <<>>
    /\ idx = 0
    /\ fetched = 0
    /\ rss_items = <<>>
    /\ origin = <<>>
    /\ rpc = "idle"

\* --------------------------------------------------------------- scheduler
FreeTimer == IF pc["timer1"] = "idle" THEN "timer1" ELSE "timer2"

\* the interval trigger fires: the job is submitted unless max_instances run
Tick ==
    /\ fired.ticks < MaxTicks
    /\ IF instances < MaxInstances
       THEN /\ pc[FreeTimer] = "idle"
            /\ pc' = [pc EXCEPT ![FreeTimer] = "fetch"]
            /\ instances' = instances + 1
            /\ fired' = [fired EXCEPT !.ticks = @ + 1, !.started = @ + 1]
       ELSE /\ UNCHANGED <<pc, instances>>
            /\ fired' = [fired EXCEPT !.ticks = @ + 1, !.skipped = @ + 1]
    /\ UNCHANGED <<db, seq, lock, tx, total, n, count_before, ret, mine, skipped, written, twice>>
    /\ UNCHANGED fetchVars
    /\ UNCHANGED normVars

\* POST /api/refresh (and the start-up task): run_refresh_now is entered
Trigger ==
    /\ pc["manual"] = "idle"
    /\ pc' = [pc EXCEPT !["manual"] = "fetch"]
    /\ UNCHANGED <<db, seq, lock, tx, total, n, count_before, ret, mine, skipped, instances, written, fired, twice>>
    /\ UNCHANGED fetchVars
    /\ UNCHANGED normVars

\* items = await fetch_all_feeds(): a list of 0..MaxBatch items
FetchAll(p) ==
    /\ pc[p] = "fetch"
    /\ \E len \in 0..MaxBatch : total' = [total EXCEPT ![p] = len]
    /\ pc' = [pc EXCEPT ![p] = "upsert"]
    /\ UNCHANGED <<db, seq, lock, tx, n, count_before, ret, mine, skipped, instances, written, fired, twice>>
    /\ UNCHANGED fetchVars
    /\ UNCHANGED normVars

\* items = await fetch_all_feeds() raises: sources.yaml cannot be opened or
\* parsed, or holds no mapping (_load_sources), or a descriptor that is passed
\* over has no name
FetchFails(p) ==
    /\ pc[p] = "fetch"
    /\ pc' = [pc EXCEPT ![p] = "raised"]
    /\ UNCHANGED <<db, seq, lock, tx, total, n, count_before, ret, mine, skipped, instances, fired,
                   written, twice>>
    /\ UNCHANGED fetchVars
    /\ UNCHANGED normVars

\* the exception leaves run_refresh_now for its caller, or _refresh_job for
\* the scheduler's executor, which logs it and frees the job's instance
Abort(p) ==
    /\ pc[p] = "raised"
    /\ pc' = [pc EXCEPT ![p] = "idle"]
    /\ total' = [total EXCEPT ![p] = 0]
    /\ instances' = IF p \in Timers THEN instances - 1 ELSE instances
    /\ UNCHANGED <<db, seq, lock, tx, n, count_before, ret, mine, skipped, fired, written,
                   twice>>
    /\ UNCHANGED fetchVars
    /\ UNCHANGED normVars

\* ------------------------------------------------------- upsert_news_items
\* if not items: return 0
UpsertEmpty(p) ==
    /\ pc[p] = "upsert"
    /\ total[p] = 0
    /\ ret' = [ret EXCEPT ![p] = 0]
    /\ pc' = [pc EXCEPT ![p] = "done"]
    /\ UNCHANGED <<db, seq, lock, tx, total, n, count_before, mine, skipped, instances, written, fired, twice>>
    /\ UNCHANGED fetchVars
    /\ UNCHANGED normVars

\* aiosqlite.connect, or the first SELECT COUNT(*), raises (the database file
\* cannot be opened or read): nothing in upsert_news_items catches it
StorageDown(p) ==
    /\ pc[p] = "upsert"
    /\ total[p] > 0
    /\ pc' = [pc EXCEPT ![p] = "raised"]
    /\ UNCHANGED <<db, seq, lock, tx, total, n, count_before, ret, mine, skipped, instances,
                   written, fired, twice>>
    /\ UNCHANGED fetchVars
    /\ UNCHANGED normVars

\* count_before = SELECT COUNT(*)
CountBefore(p) ==
    /\ pc[p] = "upsert"
    /\ total[p] > 0
    /\ count_before' = [count_before EXCEPT ![p] = Count]
    /\ pc' = [pc EXCEPT ![p] = "loop"]
    /\ UNCHANGED <<db, seq, lock, tx, total, n, ret, mine, skipped, instances, written, fired, twice>>
    /\ UNCHANGED fetchVars
    /\ UNCHANGED normVars

\* one pass of the for loop whose statement gets the write lock
WriteStep(p, item) ==
    /\ pc[p] = "loop"
    /\ n[p] < total[p]
    /\ lock \in {None, p}
    /\ LET r == Upsert(tx, item) IN
        /\ tx' = [rows |-> r.rows, seq |-> r.seq]
        /\ mine' = [mine EXCEPT ![p] = @ + r.inserted]
        /\ written' = IF r.ok
                      THEN [written EXCEPT ![item.url] = Record(@, item)]
                      ELSE written
    /\ lock' = p
    /\ n' = [n EXCEPT ![p] = @ + 1]
    /\ UNCHANGED <<db, seq, pc, total, count_before, ret, instances, fired, twice>>
    /\ UNCHANGED fetchVars
    /\ UNCHANGED normVars

WriteItem(p, item) ==
    /\ WriteStep(p, item)
    /\ UNCHANGED skipped

\* the same pass, with the positions whose statement raised kept
WriteTallied(p, item) ==
    /\ WriteStep(p, item)
    /\ skipped' = IF Upsert(tx, item).ok THEN skipped
                  ELSE [skipped EXCEPT ![p] = @ \cup {n[p] + 1}]

\* one pass of the for loop whose statement raises for a reason outside the
\* item (disk I/O error, database full): the except branch logs, the item is skipped
WriteError(p) ==
    /\ pc[p] = "loop"
    /\ n[p] < total[p]
    /\ lock \in {None, p}
    /\ n' = [n EXCEPT ![p] = @ + 1]
    /\ skipped' = [skipped EXCEPT ![p] = @ \cup {n[p] + 1}]
    /\ UNCHANGED <<db, seq, lock, tx, pc, total, count_before, ret, mine, instances, written,
                   fired, twice>>
    /\ UNCHANGED fetchVars
    /\ UNCHANGED normVars

\* one pass of the for loop whose statement finds the database locked by the
\* other connection until the busy timeout: the except branch logs, the item is skipped
WriteBusy(p) ==
    /\ pc[p] = "loop"
    /\ n[p] < total[p]
    /\ lock \notin {None, p}
    /\ n' = [n EXCEPT ![p] = @ + 1]
    /\ UNCHANGED <<db, seq, lock, tx, pc, total, count_before, ret, mine, skipped, instances, written, fired, twice>>
    /\ UNCHANGED fetchVars
    /\ UNCHANGED normVars

\* await db.commit(), after the last item
Commit(p) ==
    /\ pc[p] = "loop"
    /\ n[p] = total[p]
    /\ IF lock = p
       THEN /\ db' = tx.rows
            /\ seq' = tx.seq
            /\ lock' = None
       ELSE UNCHANGED <<db, seq, lock>>
    /\ pc' = [pc EXCEPT ![p] = "recount"]
    /\ UNCHANGED <<tx, total, n, count_before, ret, mine, skipped, instances, written, fired, twice>>
    /\ UNCHANGED fetchVars
    /\ UNCHANGED normVars

\* count_after = SELECT COUNT(*); return count_after - count_before
CountAfter(p) ==
    /\ pc[p] = "recount"
    /\ ret' = [ret EXCEPT ![p] = Count - count_before[p]]
    /\ pc' = [pc EXCEPT ![p] = "done"]
    /\ UNCHANGED <<db, seq, lock, tx, total, n, count_before, mine, skipped, instances, written, fired, twice>>
    /\ UNCHANGED fetchVars
    /\ UNCHANGED normVars

\* the call's locals go away with its frame
Return(p) ==
    /\ pc[p] = "done"
    /\ pc' = [pc EXCEPT ![p] = "idle"]
    /\ total' = [total EXCEPT ![p] = 0]
    /\ n' = [n EXCEPT ![p] = 0]
    /\ count_before' = [count_before EXCEPT ![p] = 0]
    /\ ret' = [ret EXCEPT ![p] = 0]
    /\ mine' = [mine EXCEPT ![p] = 0]
    /\ skipped' = [skipped EXCEPT ![p] = {}]
    /\ instances' = IF p \in Timers THEN instances - 1 ELSE instances
    /\ UNCHANGED <<db, seq, lock, tx, written, fired>>
    /\ UNCHANGED fetchVars
    /\ UNCHANGED normVars

\* run_refresh_now returns its dict; _refresh_job logs and ends, freeing its instance
Finish(p) ==
    /\ Return(p)
    /\ UNCHANGED twice

\* what run_refresh_now hands to its caller: its dict, or the exception that
\* left fetch_all_feeds or upsert_news_items
RefreshOutcome(p) ==
    IF pc[p] = "raised"
    THEN [kind |-> "exception", status |-> None, new_items |-> 0, total_fetched |-> 0]
    ELSE [kind |-> "dict", status |-> "ok", new_items |-> ret[p], total_fetched |-> total[p]]

Next ==
    \/ Tick
    \/ Trigger
    \/ \E p \in Procs : FetchAll(p)
    \/ \E p \in Procs : FetchFails(p)
    \/ \E p \in Procs : Abort(p)
    \/ \E p \in Procs : UpsertEmpty(p)
    \/ \E p \in Procs : StorageDown(p)
    \/ \E p \in Procs : CountBefore(p)
    \/ \E p \in Procs, item \in RacePool : WriteItem(p, item)
    \/ \E p \in Procs : WriteBusy(p)
    \/ \E p \in Procs : Commit(p)
    \/ \E p \in Procs : CountAfter(p)
    \/ \E p \in Procs : Finish(p)

\* the scheduler, the manual trigger and the store
Spec == Init /\ [][Next]_vars

\* the first firing of the interval trigger
FirstTick ==
    /\ fired.ticks = 0
    /\ Tick

NextRace ==
    \/ FirstTick
    \/ Trigger
    \/ \E p \in Procs : FetchAll(p)
    \/ \E p \in Procs : UpsertEmpty(p)
    \/ \E p \in Procs : CountBefore(p)
    \/ \E p \in Procs, item \in RacePool : WriteItem(p, item)
    \/ \E p \in Procs : WriteBusy(p)
    \/ \E p \in Procs : Commit(p)
    \/ \E p \in Procs : CountAfter(p)
    \/ \E p \in Procs : Finish(p)

\* one timer-driven cycle and the manual trigger, called again and again
SpecRace == Init /\ [][NextRace]_vars

\* the manual trigger alone, called again and again
NextSeq ==
    \/ Trigger
    \/ FetchAll("manual")
    \/ FetchFails("manual")
    \/ Abort("manual")
    \/ UpsertEmpty("manual")
    \/ StorageDown("manual")
    \/ CountBefore("manual")
    \/ \E item \in Pool : WriteItem("manual", item)
    \/ Commit("manual")
    \/ CountAfter("manual")
    \/ Finish("manual")

SpecSeq == Init /\ [][NextSeq]_vars

\* batches of at most k items of the pool P
Batches(P, k) == UNION { [1..len -> P] : len \in 0..k }

\* a caller hands a batch to upsert_news_items
CallFirst(p) ==
    /\ pc[p] = "idle"
    /\ \E items \in Batches(RacePool, MaxRepeated) :
        /\ twice' = [items |-> items, call |-> 1, first |-> 0]
        /\ total' = [total EXCEPT ![p] = Len(items)]
    /\ pc' = [pc EXCEPT ![p] = "upsert"]
    /\ UNCHANGED <<db, seq, lock, tx, n, count_before, ret, mine, skipped, instances, fired, written>>
    /\ UNCHANGED fetchVars
    /\ UNCHANGED normVars

\* the call has returned and the caller hands over the same batch again
CallAgain(p) ==
    /\ pc[p] = "done"
    /\ twice.call = 1
    /\ twice' = [twice EXCEPT !.call = 2, !.first = ret[p]]
    /\ pc' = [pc EXCEPT ![p] = "upsert"]
    /\ n' = [n EXCEPT ![p] = 0]
    /\ count_before' = [count_before EXCEPT ![p] = 0]
    /\ ret' = [ret EXCEPT ![p] = 0]
    /\ mine' = [mine EXCEPT ![p] = 0]
    /\ skipped' = [skipped EXCEPT ![p] = {}]
    /\ UNCHANGED <<db, seq, lock, tx, total, instances, fired, written>>
    /\ UNCHANGED fetchVars
    /\ UNCHANGED normVars

\* the second call has returned
CallsOver(p) ==
    /\ twice.call = 2
    /\ Return(p)
    /\ twice' = [items |-> <<>>, call |-> 0, first |-> 0]

NextTwice ==
    \/ CallFirst("manual")
    \/ CallAgain("manual")
    \/ CallsOver("manual")
    \/ UpsertEmpty("manual")
    \/ CountBefore("manual")
    \/ WriteItem("manual", twice.items[n["manual"] + 1])
    \/ Commit("manual")
    \/ CountAfter("manual")

\* one caller upserting batch after batch, each twice
SpecTwice == Init /\ [][NextTwice]_vars

\* the only call of the batch has returned
CallOver(p) ==
    /\ twice.call = 1
    /\ Return(p)
    /\ twice' = [items |-> <<>>, call |-> 0, first |-> 0]

NextSkip ==
    \/ CallFirst("manual")
    \/ CallOver("manual")
    \/ UpsertEmpty("manual")
    \/ CountBefore("manual")
    \/ WriteTallied("manual", twice.items[n["manual"] + 1])
    \/ WriteError("manual")
    \/ Commit("manual")
    \/ CountAfter("manual")

\* one caller upserting batch after batch, some statements raising
SpecSkip == Init /\ [][NextSkip]_vars

\* --------------------------------------------------------- fetch_all_feeds
\* what the feeds of the configured sources yield once normalized
FeedA == << Item([title |-> "t1", published_at |-> "p1", source_name |-> "n1",
                  category |-> "c1"], "u1", "s1", "f1") >>
FeedB == << Item([title |-> "t2", published_at |-> "p2", source_name |-> "n2",
                  category |-> ""], "u1", "", "f1"),
            Item([title |-> "t2", published_at |-> "p2", source_name |-> "n2",
                  category |-> ""], "u2", "s2", "f1") >>

\* the entries of sources.yaml; None stands for a key that is absent or null
SourcePool ==
    { [type |-> None, name |-> "n1", url |-> "http://a", filter_keyword |-> "", feed |-> FeedA],
      [type |-> "rss", name |-> "n2", url |-> "http://b", filter_keyword |-> "", feed |-> FeedB],
      [type |-> "rss", name |-> "n3", url |-> "http://c", filter_keyword |-> None, feed |-> FeedA],
      [type |-> "scraper", name |-> "n4", url |-> "http://d", filter_keyword |-> "", feed |-> <<>>],
      [type |-> "api", name |-> "n5", url |-> "http://e", filter_keyword |-> "", feed |-> <<>>] }

Configs == UNION { [1..len -> SourcePool] : len \in 0..MaxSources }

\* src_type = source.get("type", "rss")
SrcType(d) == IF d.type = None THEN "rss" ELSE d.type

\* variant: scraper sources are fetched as feeds too
IsDispatchedAny(d) == SrcType(d) \in {"rss", "scraper"}
\* the branch of the for loop that appends _fetch_rss(source) to tasks
IsDispatched(d) == SrcType(d) = "rss"

\* the branches that log a warning read source['name']: KeyError when absent
DispatchRaises(srcs) ==
    \E i \in 1..Len(srcs) : ~IsDispatched(srcs[i]) /\ srcs[i].name = None

ListResult(items) == [kind |-> "list", items |-> items]
ExcResult == [kind |-> "exception", items |-> <<>>]
NoResult == [kind |-> "pending", items |-> <<>>]

NewTask(d) == [src |-> d, state |-> "created", outcome |-> None, result |-> NoResult]

RECURSIVE Launched(_)
\* tasks, after the for loop over sources
Launched(srcs) ==
    IF srcs = <<>> THEN <<>>
    ELSE (IF IsDispatched(Head(srcs)) THEN <<NewTask(Head(srcs))>> ELSE <<>>)
         \o Launched(Tail(srcs))

\* how the GET and the parse of one feed can end
Outcomes == {"timeout", "status", "connect", "malformed", "ok"}

\* variant: a failed GET or parse still yields the feed's items
UnitResultLeaky(d, o) ==
    IF o = "ok" /\ d.filter_keyword = None THEN ExcResult ELSE ListResult(d.feed)
\* _fetch_rss from the response on: what the coroutine returns or raises
UnitResult(d, o) ==
    IF o \in {"timeout", "status", "connect"} THEN ListResult(<<>>)
    ELSE IF o = "malformed" THEN ListResult(<<>>)
    ELSE IF d.filter_keyword = None THEN ExcResult
    ELSE ListResult(d.feed)

RECURSIVE Extended(_)
\* all_items, after the loop over results
Extended(rs) ==
    IF rs = <<>> THEN <<>>
    ELSE (IF Head(rs).kind = "list" THEN Head(rs).items ELSE <<>>) \o Extended(Tail(rs))

Results(ts) == [i \in 1..Len(ts) |-> ts[i].result]

\* variant: gather without return_exceptions, the first exception propagates
GatheredPropagating(ts) ==
    IF \E i \in 1..Len(ts) : ts[i].result.kind = "exception"
    THEN [escaped |-> TRUE, items |-> <<>>]
    ELSE [escaped |-> FALSE, items |-> Extended(Results(ts))]
\* results = await asyncio.gather(*tasks, return_exceptions=True), and the loop
Gathered(ts) == [escaped |-> FALSE, items |-> Extended(Results(ts))]

\* fetch_all_feeds up to its await: the sources are loaded, one coroutine is
\* made per rss source, and gather schedules them all
FetchEnter ==
    /\ fpc = "idle"
    /\ \E c \in Configs :
        /\ sources' = c
        /\ IF DispatchRaises(c)
           THEN /\ tasks' = <<>>
                /\ escaped' = TRUE
                /\ fpc' = "returned"
           ELSE /\ tasks' = Launched(c)
                /\ escaped' = FALSE
                /\ fpc' = "gather"
    /\ all_items' = <<>>
    /\ UNCHANGED storeVars
    /\ UNCHANGED normVars

\* a _fetch_rss coroutine runs up to its GET: it reads source["url"] and source["name"]
TaskStart(i) ==
    /\ fpc = "gather"
    /\ i \in 1..Len(tasks)
    /\ tasks[i].state = "created"
    /\ tasks' = [tasks EXCEPT ![i] =
                    IF @.src.url = None \/ @.src.name = None
                    THEN [@ EXCEPT !.state = "done", !.outcome = "raised",
                                   !.result = ExcResult]
                    ELSE [@ EXCEPT !.state = "running"]]
    /\ UNCHANGED <<sources, fpc, all_items, escaped>>
    /\ UNCHANGED storeVars
    /\ UNCHANGED normVars

\* the GET of one coroutine ends, and the coroutine runs to its end
TaskResolve(i, o) ==
    /\ fpc = "gather"
    /\ i \in 1..Len(tasks)
    /\ tasks[i].state = "running"
    /\ LET res == UnitResult(tasks[i].src, o) IN
        tasks' = [tasks EXCEPT ![i] =
                    [@ EXCEPT !.state = "done",
                              !.outcome = IF res.kind = "exception" THEN "raised" ELSE o,
                              !.result = res]]
    /\ UNCHANGED <<sources, fpc, all_items, escaped>>
    /\ UNCHANGED storeVars
    /\ UNCHANGED normVars

\* variant: the await ends with the first coroutine that is done
GatherEarly ==
    /\ fpc = "gather"
    /\ tasks = <<>> \/ \E i \in 1..Len(tasks) : tasks[i].state = "done"
    /\ all_items' = Gathered(tasks).items
    /\ escaped' = Gathered(tasks).escaped
    /\ fpc' = "returned"
    /\ UNCHANGED <<sources, tasks>>
    /\ UNCHANGED storeVars
    /\ UNCHANGED normVars
\* gather resumes fetch_all_feeds once every coroutine is done
Gather ==
    /\ fpc = "gather"
    /\ \A i \in 1..Len(tasks) : tasks[i].state = "done"
    /\ all_items' = Gathered(tasks).items
    /\ escaped' = Gathered(tasks).escaped
    /\ fpc' = "returned"
    /\ UNCHANGED <<sources, tasks>>
    /\ UNCHANGED storeVars
    /\ UNCHANGED normVars

\* the caller has the list (or the exception); the next cycle may call again
FetchLeave ==
    /\ fpc = "returned"
    /\ fpc' = "idle"
    /\ sources' = <<>>
    /\ tasks' = <<>>
    /\ all_items' = <<>>
    /\ escaped' = FALSE
    /\ UNCHANGED storeVars
    /\ UNCHANGED normVars

NextFetch ==
    \/ FetchEnter
    \/ \E i \in 1..MaxSources : TaskStart(i)
    \/ \E i \in 1..MaxSources, o \in Outcomes : TaskResolve(i, o)
    \/ Gather
    \/ FetchLeave

\* one call of fetch_all_feeds after another
SpecFetch == Init /\ [][NextFetch]_vars

\* -------------------------------------------------------------- _fetch_rss
\* the descriptors _fetch_rss is called with
RssSources ==
    { [name |-> "n1", category |-> Str(<<"c1">>), filter_keyword |-> Absent],
      [name |-> "n2", category |-> Absent, filter_keyword |-> Str(<<>>)],
      [name |-> "n3", category |-> Absent, filter_keyword |-> Str(<<"R", "a">>)],
      [name |-> "n4", category |-> Absent, filter_keyword |-> Str(<<"r", " ", "a">>)],
      [name |-> "n5", category |-> Absent, filter_keyword |-> Null] }

\* the entries feedparser hands over
Entry(link, id, title, summary, description, published, updated, created) ==
    [link |-> link, id |-> id, title |-> title, summary |-> summary,
     description |-> description, published |-> published, updated |-> updated,
     created |-> created]
EntryPool ==
    { Entry(Str(<<"u1">>), Absent, Str(<<"R", "A", " ", "x">>), Absent, Absent,
            Stamp(1, ""), Stamp(2, "+00:00"), NoDate),
      Entry(Str(<<"u2">>), Str(<<"i2">>), Str(<<" ", "x", " ">>), Str(<<"x">>), Absent,
            NoDate, Stamp(2, "+09:00"), NoDate),
      Entry(Absent, Str(<<"u3">>), Absent, Str(<<"<", "r", "a", ">", "x">>), Absent,
            EmptyDate, NoDate, Stamp(3, "")),
      Entry(Str(<<"u4">>), Absent, Str(<<" ">>), Absent, Str(<<"r", "a">>),
            Garbage, Stamp(2, ""), NoDate),
      Entry(Absent, Absent, Str(<<"R", "a">>), Absent, Absent,
            Stamp(1, ""), NoDate, NoDate),
      Entry(Str(<<"u5">>), Absent, Str(<<"x", "r">>), Str(<<"a", "x">>), Absent,
            NoDate, NoDate, NoDate) }

\* longest feed
MaxEntries == 2
\* ticks of the clock during one call
MaxClock == 2

Feeds == UNION { [1..len -> EntryPool] : len \in 0..MaxEntries }

\* entry.get("title", <placeholder>)
Placeholder == <<"(no title)">>

\* entry.get("link") or entry.get("id") or ""
ItemUrl(e) == Or(Or(GetNone(e.link), GetNone(e.id)), Str(<<>>))
\* entry.get("title", <placeholder>).strip()
EntryTitle(e) == Strip(Get(e.title, Str(Placeholder)).text)
\* _clean_summary(entry.get("summary") or entry.get("description") or "")
EntrySummary(e) ==
    CleanSummary(Or(Or(GetNone(e.summary), GetNone(e.description)), Str(<<>>)))
\* entry.get("published") or entry.get("updated") or entry.get("created")
RawDate(e) == DateOr(DateOr(e.published, e.updated), e.created)
\* source.get("filter_keyword", "").lower(), for a keyword that is a str
FilterKeyword(src) == LowerStr(Get(src.filter_keyword, Str(<<>>)).text)

\* one pass of the for loop over feed.entries: what it appends to items
Emit(src, e, at, now) ==
    IF ~Truthy(ItemUrl(e)) THEN <<>>
    ELSE IF /\ FilterKeyword(src) # <<>>
            /\ ~Contains(LowerStr(EntryTitle(e) \o <<" ">> \o EntrySummary(e)),
                         FilterKeyword(src))
    THEN <<>>
    ELSE << [title |-> EntryTitle(e),
             url |-> ItemUrl(e).text,
             summary |-> EntrySummary(e),
             published_at |-> NormalizeDate(RawDate(e), now),
             source_name |-> src.name,
             category |-> Get(src.category, Str(<<>>)).text,
             fetched_at |-> Iso(at, "+00:00")] >>

\* _fetch_rss from the parsed feed on: fetched_at was taken, the keyword is
\* read (None has no lower(): AttributeError)
RssEnter ==
    /\ rpc = "idle"
    /\ \E src \in RssSources, feed \in Feeds :
        /\ source' = src
        /\ entries' = feed
        /\ rpc' = IF Get(src.filter_keyword, Str(<<>>)).kind = "null" THEN "raised" ELSE "loop"
    /\ fetched' = clock
    /\ idx' = 0
    /\ rss_items' = <<>>
    /\ origin' = <<>>
    /\ UNCHANGED clock
    /\ UNCHANGED storeVars
    /\ UNCHANGED fetchVars

\* time passes while the loop runs
Tock ==
    /\ rpc = "loop"
    /\ clock < 10 + MaxClock
    /\ clock' = clock + 1
    /\ UNCHANGED <<source, entries, idx, fetched, rss_items, origin, rpc>>
    /\ UNCHANGED storeVars
    /\ UNCHANGED fetchVars

\* one pass of the for loop
RssEntry ==
    /\ rpc = "loop"
    /\ idx < Len(entries)
    /\ LET out == Emit(source, entries[idx + 1], fetched, clock) IN
        /\ rss_items' = rss_items \o out
        /\ origin' = origin \o [i \in 1..Len(out) |-> idx + 1]
    /\ idx' = idx + 1
    /\ UNCHANGED <<clock, source, entries, fetched, rpc>>
    /\ UNCHANGED storeVars
    /\ UNCHANGED fetchVars

\* return items
RssReturn ==
    /\ rpc = "loop"
    /\ idx = Len(entries)
    /\ rpc' = "returned"
    /\ UNCHANGED <<clock, source, entries, idx, fetched, rss_items, origin>>
    /\ UNCHANGED storeVars
    /\ UNCHANGED fetchVars

\* the caller has the list (or the exception); the next call may come
RssLeave ==
    /\ rpc \in {"returned", "raised"}
    /\ rpc' = "idle"
    /\ clock' = 10
    /\ source' = NoSource
    /\ entries' = <<>>
    /\ idx' = 0
    /\ fetched' = 0
    /\ rss_items' = <<>>
    /\ origin' = <<>>
    /\ UNCHANGED storeVars
    /\ UNCHANGED fetchVars

NextNorm ==
    \/ RssEnter
    \/ Tock
    \/ RssEntry
    \/ RssReturn
    \/ RssLeave

\* one call of _fetch_rss after another, each on a parsed feed
SpecNorm == Init /\ [][NextNorm]_vars

\* ------------------------------------------------------------------ claims
\* the store as the writing connection sees it (the committed rows whenever
\* no transaction is open)
Stored == tx.rows
Coherent == lock = None => (db = tx.rows /\ seq = tx.seq)
RowFor(rows, u) == CHOOSE r \in rows : r.url = u

C4_FirstWriteWins ==
    /\ Coherent
    /\ \A r \in Stored : MetaOf(r) = MetaOf(written[r.url].first)

\* an item with other title, date, source and category was written later
C4_Witness ==
    \E r \in db :
        /\ lock = None
        /\ written[r.url].last.title # r.title
        /\ written[r.url].last.published_at # r.published_at
        /\ written[r.url].last.source_name # r.source_name
        /\ written[r.url].last.category # r.category

UniqueUrls(rows) == \A r1, r2 \in rows : r1.url = r2.url => r1 = r2

\* C6: whatever step is taken, no two stored rows share a url afterwards and
\* every url stored before the step is still stored after it
C6_UrlUniqueAndKept ==
    [][/\ UniqueUrls(db')
       /\ UniqueUrls(tx'.rows)
       /\ \A r \in db : \E r2 \in db' : r2.url = r.url
       /\ \A r \in tx.rows : \E r2 \in tx'.rows : r2.url = r.url]_vars

\* the timer's cycle and the trigger, overlapping, have each inserted one url
\* and written one item for a url that was stored already
C6_Witness ==
    /\ pc["manual"] = "done" /\ pc["timer1"] = "done"
    /\ n["manual"] = 2 /\ n["timer1"] = 2
    /\ mine["manual"] = 1 /\ mine["timer1"] = 1
    /\ Cardinality(db) = 2
    /\ \E u \in Urls : written[u].last.title # written[u].first.title

\* C7: upsert_news_items returns the number of rows the call itself inserted
C7_ReturnsOwnInserts ==
    \A p \in Procs : pc[p] = "done" => ret[p] = mine[p]

\* timer-driven runs of _refresh_job in flight
InFlight == Cardinality({ t \in Timers : pc[t] # "idle" })
TickStartsRun == Tick /\ pc' # pc
TickChangesState == Tick /\ <<db, seq, lock, tx, pc, total, n, count_before, ret, mine,
                              instances, written>>' #
                            <<db, seq, lock, tx, pc, total, n, count_before, ret, mine,
                              instances, written>>

\* C10: at most one timer-driven run is in flight; a firing of the trigger
\* during a run starts nothing and leaves no trace but the count of skipped
\* firings, so every firing either started its run at once or never does; with
\* no run in flight a firing starts one
C10_OneTimerCycle ==
    /\ InFlight <= 1
    /\ instances = InFlight
    /\ fired.started + fired.skipped = fired.ticks
    /\ fired.ticks < MaxTicks =>
        /\ ENABLED Tick
        /\ InFlight = 0 => ENABLED TickStartsRun
        /\ InFlight = 1 => ~ ENABLED TickChangesState

\* a firing was skipped during a run, that run ended, and a later firing
\* started the next run
C10_Witness ==
    /\ fired.skipped >= 1
    /\ fired.started = 2
    /\ InFlight = 1
    /\ pc["timer1"] = "done"
    /\ pc["manual"] = "idle"
    /\ Cardinality(db) = 2

\* what a unit is to contribute: its feed's items when nothing failed
Contribution(t) == IF t.outcome = "ok" THEN t.src.feed ELSE <<>>
RECURSIVE Aggregate(_)
Aggregate(ts) ==
    IF ts = <<>> THEN <<>> ELSE Contribution(Head(ts)) \o Aggregate(Tail(ts))

\* C8: fetch_all_feeds returns, without raising, the items of every source
\* that did not fail and nothing for a source that failed
C8_FailuresContained ==
    fpc = "returned" =>
        /\ ~escaped
        /\ all_items = Aggregate(tasks)

\* a call has returned the items of one source while another timed out and
\* a third raised inside its unit
C8_Witness ==
    /\ fpc = "returned"
    /\ Len(tasks) = 3
    /\ tasks[1].outcome = "timeout"
    /\ tasks[2].outcome = "ok"
    /\ tasks[3].outcome = "raised"
    /\ all_items = tasks[2].src.feed
    /\ all_items # <<>>

IsRss(d) == d.type \in {None, "rss"}
RssOnly(srcs) == SelectSeq(srcs, IsRss)

IngestionFailed(p) == pc[p] = "raised" /\ total[p] = 0
StorageFailed(p) == pc[p] = "raised" /\ total[p] > 0

\* C11: when ingestion fails (the source configuration, a fetch, a feed, one
\* item's write) the manual trigger still hands its caller a RefreshOutcome,
\* never an exception
C11_NeverRaises ==
    IngestionFailed("manual") => RefreshOutcome("manual").kind = "dict"

\* C12: when the store cannot be used for the batch, the manual trigger hands
\* its caller a RefreshOutcome whose status is not "ok"
C12_OutageReported ==
    StorageFailed("manual") =>
        /\ RefreshOutcome("manual").kind = "dict"
        /\ RefreshOutcome("manual").status # "ok"

\* the store after one more statement
View(r) == [rows |-> r.rows, seq |-> r.seq]
Then(v, item) == LET r == Upsert(v, item) IN View(r)
UrlsOf(rows) == { r.url : r \in rows }

\* C13 as stated: the first and the last item written for a url leave the
\* same rows whichever of the two is written first, so that the order in
\* which the timer's cycle and the trigger wrote them does not show
C13_Commutative ==
    \A u \in Urls :
        written[u].seen =>
            LET e == [rows |-> {}, seq |-> 0]
                a == written[u].first
                b == written[u].last
            IN Then(Then(e, a), b).rows = Then(Then(e, b), a).rows

\* C13 amended: writing an item twice in a row leaves the rows of writing it
\* once, and two items of one url leave, whichever comes first, the urls
\* stored before and theirs, with one row each; the row keeps title,
\* published_at, source_name and category of the item written first
C13_IdempotentPerUrl ==
    \A a \in RacePool :
        LET ta == Then(tx, a)
            taa == Then(ta, a)
        IN /\ taa.rows = ta.rows
           /\ \A b \in RacePool \ {a} :
               a.url = b.url =>
                   LET tab == Then(ta, b) IN
                   /\ UrlsOf(tab.rows) =
                        UrlsOf(tx.rows) \cup { x.url : x \in { y \in {a, b} : NotNullOk(y) } }
                   /\ UniqueUrls(tab.rows)
                   /\ (NotNullOk(a) /\ a.url \notin UrlsOf(tx.rows)) =>
                        MetaOf(RowFor(tab.rows, a.url)) = MetaOf(a)

\* the timer's cycle and the trigger have both written one url, under
\* different titles, and the other order would have left another row
C13_Witness ==
    /\ pc["manual"] \in {"loop", "recount", "done"}
    /\ pc["timer1"] \in {"loop", "recount", "done"}
    /\ n["manual"] >= 1 /\ n["timer1"] >= 1
    /\ \E r \in Stored :
        /\ written[r.url].first.title # written[r.url].last.title
        /\ LET e == [rows |-> {}, seq |-> 0]
               other == Then(Then(e, written[r.url].last), written[r.url].first).rows
           IN MetaOf(RowFor(other, r.url)) # MetaOf(r)

\* the sequence part occurs in the sequence whole, unbroken and in order
OccursIn(part, whole) ==
    \E k \in 0..(Len(whole) - Len(part)) : SubSeq(whole, k + 1, k + Len(part)) = part

\* C14: once a unit runs, a unit has been launched for every rss source; as
\* long as a unit is pending the call has returned nothing; when it has
\* returned, every unit is done and each unit's items stand in the list in
\* the order of their feed
C14_AllLaunchedAllResolved ==
    /\ (\E i \in 1..Len(tasks) : tasks[i].state # "created") =>
            Len(tasks) = Len(RssOnly(sources))
    /\ (\E i \in 1..Len(tasks) : tasks[i].state # "done") =>
            fpc = "gather" /\ all_items = <<>>
    /\ fpc = "returned" =>
            \A i \in 1..Len(tasks) :
                /\ tasks[i].state = "done"
                /\ tasks[i].outcome = "ok" => OccursIn(tasks[i].src.feed, all_items)

\* a call has returned the two items of one feed, in their order, and the
\* item of another
C14_Witness ==
    /\ fpc = "returned"
    /\ Len(tasks) = 2
    /\ Len(tasks[1].src.feed) = 2
    /\ tasks[1].outcome = "ok" /\ tasks[2].outcome = "ok"
    /\ Len(all_items) = 3
    /\ <<all_items[1], all_items[2]>> = tasks[1].src.feed
    /\ all_items[1] # all_items[2]

RECURSIVE ApplyAll(_, _)
\* the store after the statements of a batch, none of them skipped
ApplyAll(v, batch) ==
    IF batch = <<>> THEN v ELSE ApplyAll(Then(v, Head(batch)), Tail(batch))

RECURSIVE Kept(_, _, _)
\* the first k items of a batch without those at the positions in skip
Kept(batch, k, skip) ==
    IF k = 0 THEN <<>>
    ELSE Kept(batch, k - 1, skip) \o (IF k \in skip THEN <<>> ELSE <<batch[k]>>)

\* C15: while a batch is written, the store is what the items taken so far
\* would have left had the items whose write raised not been in the batch,
\* and the loop ends only after it has taken every item
C15_FailedItemSkipped ==
    \A p \in Procs :
        /\ pc[p] = "loop" =>
            tx = ApplyAll([rows |-> db, seq |-> seq], Kept(twice.items, n[p], skipped[p]))
        /\ pc[p] \in {"recount", "done"} => n[p] = Len(twice.items)

\* the loop is over for a batch of three: the first item broke a constraint,
\* the statement of the second raised, and the third was inserted
C15_Witness ==
    /\ pc["manual"] = "loop"
    /\ Len(twice.items) = 3
    /\ n["manual"] = 3
    /\ skipped["manual"] = {1, 2}
    /\ ~NotNullOk(twice.items[1])
    /\ NotNullOk(twice.items[2])
    /\ mine["manual"] = 1
    /\ twice.items[3].url \in UrlsOf(tx.rows) \ UrlsOf(db)

\* C20: the RefreshOutcome of the manual trigger has 0 <= new_items <= total_fetched
C20_NewWithinFetched ==
    pc["manual"] = "done" =>
        /\ 0 <= RefreshOutcome("manual").new_items
        /\ RefreshOutcome("manual").new_items <= RefreshOutcome("manual").total_fetched

\* the keyword as the configuration gives it, "" when it gives none
Keyword(src) == Get(src.filter_keyword, Str(<<>>)).text
\* kw occurs in text, whatever the case of either
Mentions(text, kw) ==
    \E k \in 0..(Len(text) - Len(kw)) :
        \A i \in 1..Len(kw) : Lower(text[k + i]) = Lower(kw[i])
\* the title and the cleaned summary of an entry, joined by the one space
TitleAndSummary(e) == EntryTitle(e) \o <<" ">> \o EntrySummary(e)
\* the entry at position j has an item in the list
Emitted(j) == \E i \in 1..Len(origin) : origin[i] = j

Present(d) == d.kind \notin {"absent", "empty"}
\* published, else updated, else created
Chosen(e) ==
    IF Present(e.published) THEN e.published
    ELSE IF Present(e.updated) THEN e.updated
    ELSE e.created

\* C17: the published_at of an item is the timestamp of the first of
\* published, updated, created that is there, with +00:00 when that has no
\* offset; when none is there or it cannot be parsed, it is an instant of the
\* call, in UTC; it is never missing, and no entry is dropped for its dates
C17_DateFallback ==
    /\ \A i \in 1..Len(rss_items) :
        LET d == Chosen(entries[origin[i]])
            p == rss_items[i].published_at
        IN /\ p.off \notin {None, ""}
           /\ d.kind = "stamp" => (p.t = d.t /\ (d.off = "" => p.off = "+00:00"))
           /\ d.kind # "stamp" => (p.off = "+00:00" /\ fetched <= p.t /\ p.t <= clock)
    /\ (rpc \in {"loop", "returned"} /\ Keyword(source) = <<>>) =>
        \A j \in 1..idx : Truthy(ItemUrl(entries[j])) => Emitted(j)

\* a call has emitted an entry whose published cannot be parsed, dated after
\* the call began, and an entry dated by created, which has no offset
C17_Witness ==
    /\ rpc = "returned"
    /\ Len(rss_items) = 2
    /\ entries[origin[1]].published.kind = "garbage"
    /\ Present(entries[origin[1]].updated)
    /\ rss_items[1].published_at.t > fetched
    /\ ~Present(entries[origin[2]].published)
    /\ entries[origin[2]].created = Stamp(3, "")
    /\ rss_items[2].published_at = Iso(3, "+00:00")

\* C18: every item of the list has a published_at with offset +00:00
C18_PublishedAtUtc ==
    \A i \in 1..Len(rss_items) : rss_items[i].published_at.off = "+00:00"

\* C19: every item of the list has a title that is not empty
C19_TitleNonEmpty ==
    \A i \in 1..Len(rss_items) : rss_items[i].title # <<>>

====
